---- MODULE Spec2Model ----
(***************************************************************************)
(* Model of the Noraneko WinUpdater update pipeline (pkg/updater).         *)
(* Strings are sequences of one-character strings, so that the substring,  *)
(* suffix, prefix and case operations of the Go code are computed and not  *)
(* assumed.                                                                *)
(***************************************************************************)
EXTENDS Integers, Sequences, FiniteSets, TLC

\* ------------------------------------------------------------------------
\* Bounds of the model
\* ------------------------------------------------------------------------
MaxAssets == 3
MaxVPrefix == 2
MaxRunAssets == 2
MaxEntries == 2
MaxLogCalls == 3

\* ------------------------------------------------------------------------
\* Go string functions (package strings), over sequences of characters
\* ------------------------------------------------------------------------
UpperChars == <<"A","B","C","D","E","F","G","H","I","J","K","L","M",
                "N","O","P","Q","R","S","T","U","V","W","X","Y","Z">>
LowerChars == <<"a","b","c","d","e","f","g","h","i","j","k","l","m",
                "n","o","p","q","r","s","t","u","v","w","x","y","z">>

\* the lower-case letter of each upper-case letter
LowerOf == [c \in {UpperChars[i] : i \in 1..26} |->
               LowerChars[CHOOSE i \in 1..26 : UpperChars[i] = c]]

ToLowerChar(c) == IF c \in DOMAIN LowerOf THEN LowerOf[c] ELSE c

ToLower(s) == [i \in 1..Len(s) |-> ToLowerChar(s[i])]

HasPrefix(s, p) == Len(p) <= Len(s) /\ SubSeq(s, 1, Len(p)) = p

HasSuffix(s, p) == Len(p) <= Len(s) /\ SubSeq(s, Len(s) - Len(p) + 1, Len(s)) = p

Contains(s, sub) ==
    \E i \in 0..(Len(s) - Len(sub)) : SubSeq(s, i + 1, i + Len(sub)) = sub

TrimPrefix(s, p) == IF HasPrefix(s, p) THEN SubSeq(s, Len(p) + 1, Len(s)) ELSE s

\* ------------------------------------------------------------------------
\* String literals of the source, spelled as character sequences
\* ------------------------------------------------------------------------
S_v == <<"v">>
S_dash == <<"-">>
S_app == <<"a","p","p">>
S_windows == <<"w","i","n","d","o","w","s">>
S_win == <<"w","i","n">>
S_x86_64 == <<"x","8","6","_","6","4">>
S_i686 == <<"i","6","8","6">>
S_portable_zip == <<"p","o","r","t","a","b","l","e",".","z","i","p">>
S_setup_exe == <<"s","e","t","u","p",".","e","x","e">>
S_win64_zip == <<"w","i","n","6","4",".","z","i","p">>
S_win64_setup_exe == <<"w","i","n","6","4","-","s","e","t","u","p",".","e","x","e">>
S_windows_zip == <<"w","i","n","d","o","w","s",".","z","i","p">>
S_windows_setup_exe == <<"w","i","n","d","o","w","s","-","s","e","t","u","p",".","e","x","e">>
S_exe == <<".","e","x","e">>
S_zip == <<".","z","i","p">>
S_sha256 == <<"s","h","a","2","5","6">>
S_dot_sha256 == <<".","s","h","a","2","5","6">>
S_sums_txt == <<"s","u","m","s",".","t","x","t">>
S_linux_tar_gz == <<"l","i","n","u","x",".","t","a","r",".","g","z">>
S_000 == <<"0",".","0",".","0">>
S_199 == <<"1",".","9",".","9">>
S_200 == <<"2",".","0",".","0">>
S_100 == <<"1",".","0",".","0">>
S_101 == <<"1",".","0",".","1">>
S_110 == <<"1",".","1",".","0">>
S_190 == <<"1",".","9",".","0">>
S_1_10_0 == <<"1",".","1","0",".","0">>
S_100_beta == <<"1",".","0",".","0","-","b","e","t","a">>
S_empty == <<>>

\* runtime.GOARCH of the documented build (GOOS=windows GOARCH=amd64)
GOARCH == "amd64"

\* ------------------------------------------------------------------------
\* isNewerVersion
\* ------------------------------------------------------------------------
isNewerVersion_NoSentinel(current, latest) ==
    LET c == TrimPrefix(current, S_v)
        l == TrimPrefix(latest, S_v)
    IN l # c

isNewerVersion_NoTrimLatest(current, latest) ==
    LET c == TrimPrefix(current, S_v)
    IN IF c = S_empty \/ c = S_000 THEN TRUE ELSE latest # c

isNewerVersion_NoTrimCurrent(current, latest) ==
    LET l == TrimPrefix(latest, S_v)
    IN IF current = S_empty \/ current = S_000 THEN TRUE ELSE l # current

isNewerVersion_SentinelBeforeTrim(current, latest) ==
    LET c == TrimPrefix(current, S_v)
        l == TrimPrefix(latest, S_v)
    IN IF current = S_empty \/ current = S_000 THEN TRUE ELSE l # c

isNewerVersion(current, latest) ==
    LET c == TrimPrefix(current, S_v)
        l == TrimPrefix(latest, S_v)
    IN IF c = S_empty \/ c = S_000 THEN TRUE ELSE l # c

\* ------------------------------------------------------------------------
\* findAsset / findChecksumAsset
\* ------------------------------------------------------------------------
arch == IF GOARCH = "386" THEN S_i686 ELSE S_x86_64

primarySuffix(isPortable) ==
    IF isPortable
    THEN S_windows \o S_dash \o arch \o S_dash \o S_portable_zip
    ELSE S_windows \o S_dash \o arch \o S_dash \o S_setup_exe

suffixes(isPortable) ==
    << primarySuffix(isPortable), S_win64_zip, S_win64_setup_exe,
       S_windows_zip, S_windows_setup_exe >>

\* the condition of the inner loop body, for one asset name and one fragment
matchesSuffix(assetName, s) ==
    LET name == ToLower(assetName)
    IN Contains(name, ToLower(s)) \/ HasSuffix(name, ToLower(s))

matchesAnySuffix(assetName, isPortable) ==
    \E k \in 1..Len(suffixes(isPortable)) :
        matchesSuffix(assetName, suffixes(isPortable)[k])

\* the condition of the second loop
matchesGeneric(assetName) ==
    LET name == ToLower(assetName)
    IN /\ (Contains(name, S_windows) \/ Contains(name, S_win))
       /\ (HasSuffix(name, S_exe) \/ HasSuffix(name, S_zip))

NoAsset == [Name |-> <<"<", "n", "i", "l", ">">>]

\* the first of the indices at which a loop's condition holds, 0 if there is none
FirstIndex(hits) ==
    IF hits = {} THEN 0 ELSE CHOOSE i \in hits : \A j \in hits : i <= j

findAsset(assets, isPortable) ==
    LET i1 == FirstIndex({i \in 1..Len(assets) :
                            matchesAnySuffix(assets[i].Name, isPortable)})
        i2 == FirstIndex({i \in 1..Len(assets) : matchesGeneric(assets[i].Name)})
    IN IF i1 # 0 THEN [ok |-> TRUE, asset |-> assets[i1]]
       ELSE IF i2 # 0 THEN [ok |-> TRUE, asset |-> assets[i2]]
       ELSE [ok |-> FALSE, asset |-> NoAsset]

isChecksumName(assetName) ==
    LET name == ToLower(assetName)
    IN Contains(name, S_sha256) \/ HasSuffix(name, S_dot_sha256)

findChecksumAsset_Last(assets) ==
    LET hits == {i \in 1..Len(assets) : isChecksumName(assets[i].Name)}
    IN IF hits = {} THEN NoAsset
       ELSE assets[CHOOSE i \in hits : \A j \in hits : j <= i]

findChecksumAsset(assets) ==
    LET i1 == FirstIndex({i \in 1..Len(assets) : isChecksumName(assets[i].Name)})
    IN IF i1 # 0 THEN assets[i1] ELSE NoAsset

\* ------------------------------------------------------------------------
\* Inputs of a run: version strings, release assets
\* ------------------------------------------------------------------------
RECURSIVE Repeat(_, _)
Repeat(s, n) == IF n = 0 THEN <<>> ELSE s \o Repeat(s, n - 1)

VersionCores ==
    {S_empty, S_000, S_199, S_200, S_100, S_101, S_110, S_190, S_1_10_0, S_100_beta}

\* version strings as found in a version file or a release tag
Versions == {Repeat(S_v, n) \o c : n \in 0..MaxVPrefix, c \in VersionCores}

\* the version strings of the runs of the whole pipeline
RunVersions == {S_000, S_v \o S_000, S_200, S_v \o S_200}

A_portable == S_app \o S_dash \o S_windows \o S_dash \o S_x86_64 \o S_dash \o S_portable_zip
A_setup == S_app \o S_dash \o S_windows \o S_dash \o S_x86_64 \o S_dash \o S_setup_exe
A_winzip == S_app \o S_dash \o S_windows_zip
A_win64setup == S_app \o S_dash \o S_win64_setup_exe
A_sums == S_sha256 \o S_sums_txt
A_linux == S_app \o S_dash \o S_linux_tar_gz
A_winzip_sha256 == A_winzip \o S_dot_sha256

AssetNames ==
    {A_portable, A_setup, A_winzip, A_win64setup, A_sums, A_linux, A_winzip_sha256}

\* release asset lists: asset names are unique within a release
AssetLists ==
    { l \in UNION { [1..n -> [Name : AssetNames]] : n \in 0..MaxAssets } :
        \A i, j \in 1..Len(l) : l[i].Name = l[j].Name => i = j }

\* the release asset lists of the runs of the whole pipeline
RunAssetNames == {A_winzip, A_setup, A_sums, A_linux}

RunAssetLists ==
    { l \in UNION { [1..n -> [Name : RunAssetNames]] : n \in 0..MaxRunAssets } :
        \A i, j \in 1..Len(l) : l[i].Name = l[j].Name => i = j }

NoRelease == [TagName |-> S_empty, Assets |-> <<>>]

\* ------------------------------------------------------------------------
\* Messages written by Run
\* ------------------------------------------------------------------------
S_NoNewVersionFound ==
    <<"N","o"," ","n","e","w"," ","v","e","r","s","i","o","n"," ","f","o","u","n","d">>
S_UpdatedFrom == <<"U","p","d","a","t","e","d"," ","f","r","o","m"," ">>
S_to == <<" ","t","o"," ">>

\* fmt.Sprintf("Updated from %s to %s", currentVersion, newVersion)
UpdatedMessage(cur, new) == S_UpdatedFrom \o cur \o S_to \o new

\* the two LogEntry calls of logResult
logResult(log, result) ==
    log \o << [key |-> "LastRun", value |-> "timestamp"],
              [key |-> "LastResult", value |-> result] >>

\* ------------------------------------------------------------------------
\* verifyChecksum: parsing of the manifest, updater.go:343-379
\* ------------------------------------------------------------------------
IsSpace(c) == c \in {" ", "\t", "\r", "\n", "\f"}

\* strings.Split(s, "\n")
RECURSIVE SplitLines(_)
SplitLines(s) ==
    IF \E i \in 1..Len(s) : s[i] = "\n"
    THEN LET i == CHOOSE k \in 1..Len(s) :
                      s[k] = "\n" /\ \A j \in 1..(k - 1) : s[j] # "\n"
         IN << SubSeq(s, 1, i - 1) >> \o SplitLines(SubSeq(s, i + 1, Len(s)))
    ELSE << s >>

\* strings.Fields(s)
RECURSIVE Fields(_)
Fields(s) ==
    IF s = <<>> THEN <<>>
    ELSE IF IsSpace(s[1]) THEN Fields(Tail(s))
    ELSE LET n == IF \E i \in 1..Len(s) : IsSpace(s[i])
                  THEN (CHOOSE k \in 1..Len(s) :
                            IsSpace(s[k]) /\ \A j \in 1..(k - 1) : ~IsSpace(s[j])) - 1
                  ELSE Len(s)
         IN << SubSeq(s, 1, n) >> \o Fields(SubSeq(s, n + 1, Len(s)))

EqualFold(a, b) == ToLower(a) = ToLower(b)

S_star == <<"*">>

\* the record of one manifest line matches the file name
lineMatches(line, fileName) ==
    LET parts == Fields(line)
    IN /\ Len(parts) >= 2
       /\ LET name == TrimPrefix(parts[2], S_star)
          IN EqualFold(name, fileName) \/ HasSuffix(name, fileName)

expectedHashOf_NoLower(data, fileName) ==
    LET lines == SplitLines(data)
        i1 == FirstIndex({i \in 1..Len(lines) : lineMatches(lines[i], fileName)})
    IN IF i1 = 0 THEN S_empty ELSE Fields(lines[i1])[1]

expectedHashOf(data, fileName) ==
    LET lines == SplitLines(data)
        i1 == FirstIndex({i \in 1..Len(lines) : lineMatches(lines[i], fileName)})
    IN IF i1 = 0 THEN S_empty ELSE ToLower(Fields(lines[i1])[1])

\* the result of verifyChecksum once the manifest was read and the file hashed
compareChecksum(data, fileName, fileHash) ==
    LET expectedHash == expectedHashOf(data, fileName)
    IN IF expectedHash = S_empty THEN "checksum not found in checksum file"
       ELSE IF fileHash # expectedHash THEN "checksum mismatch"
       ELSE ""

\* digests (hex) and manifests the environment can serve
H1 == <<"0","a">>
H1U == <<"0","A">>
H2 == <<"f","f">>
S_sp == <<" ">>
S_nl == <<"\n">>

ActualHashes == {H1, H2}

\* the upper-case letter of each lower-case letter
UpperOf == [c \in {LowerChars[i] : i \in 1..26} |->
               UpperChars[CHOOSE i \in 1..26 : LowerChars[i] = c]]

ToUpper(s) == [i \in 1..Len(s) |-> IF s[i] \in DOMAIN UpperOf THEN UpperOf[s[i]] ELSE s[i]]

S_dist == <<"d","i","s","t","/">>

\* manifests: empty; one record; binary-mode record with an upper-case digest;
\* a record of another file first; no record of the file; two records of the
\* file with different digests; the file named with a directory; the file named
\* in upper case; the file named with a directory and in upper case; a record
\* of a file with a longer name before the record of the file
S_old == <<"o","l","d","-">>

ManifestsFor(fileName) ==
    { S_empty,
      H1 \o S_sp \o fileName \o S_nl,
      H1U \o S_sp \o S_sp \o S_star \o fileName,
      H2 \o S_sp \o A_linux \o S_nl \o H2 \o S_sp \o fileName \o S_nl,
      H1 \o S_sp \o A_linux \o S_nl,
      H2 \o S_sp \o fileName \o S_nl \o H1 \o S_sp \o fileName \o S_nl,
      H1 \o S_sp \o S_dist \o fileName \o S_nl,
      H1 \o S_sp \o ToUpper(fileName) \o S_nl,
      H1 \o S_sp \o S_dist \o ToUpper(fileName) \o S_nl,
      H2 \o S_sp \o S_old \o fileName \o S_nl \o H1 \o S_sp \o fileName \o S_nl }

\* ------------------------------------------------------------------------
\* Paths and archives: a path is a sequence of segments, a segment a sequence
\* of characters; updater.go:383-493
\* ------------------------------------------------------------------------
S_sep == <<"\\">>
S_dot == <<".">>
S_dotdot == <<".", ".">>
S_a == <<"a">>
S_d == <<"d">>
S_Temp == <<"T","e","m","p">>
S_Noraneko_Extracted ==
    <<"N","o","r","a","n","e","k","o","-","E","x","t","r","a","c","t","e","d">>

\* cfg.WorkDir, and filepath.Join(cfg.WorkDir, BrowserName+"-Extracted")
WorkDir == << S_Temp >>
extractDir == Append(WorkDir, S_Noraneko_Extracted)

\* filepath.Clean of a rooted path: "." is dropped, ".." removes the segment
\* before it and is dropped at the root
RECURSIVE CleanOnto(_, _)
CleanOnto(done, rest) ==
    IF rest = <<>> THEN done
    ELSE IF Head(rest) \in {S_dot, S_empty} THEN CleanOnto(done, Tail(rest))
    ELSE IF Head(rest) = S_dotdot
         THEN CleanOnto(IF done = <<>> THEN <<>> ELSE SubSeq(done, 1, Len(done) - 1),
                        Tail(rest))
    ELSE CleanOnto(Append(done, Head(rest)), Tail(rest))

Clean(path) == CleanOnto(<<>>, path)

\* filepath.Join(dir, name)
Join(dir, name) == Clean(dir \o name)

\* the path as the string the prefix test of unzip reads
RECURSIVE PathString(_)
PathString(path) ==
    IF path = <<>> THEN <<>> ELSE S_sep \o Head(path) \o PathString(Tail(path))

\* the ZipSlip test of unzip, updater.go:437-440
isLegalPath_NoSeparator(fpath, dest) ==
    HasPrefix(PathString(fpath), PathString(Clean(dest)))

isLegalPath(fpath, dest) ==
    HasPrefix(PathString(fpath), PathString(Clean(dest)) \o S_sep)

\* the entries a zip archive can hold: a file, a directory, a file in the
\* directory, a file above the destination, a file in a sibling directory whose
\* name extends the destination's name, and the destination itself
fileEntry(name) == [Name |-> name, IsDir |-> FALSE]
dirEntry(name) == [Name |-> name, IsDir |-> TRUE]

ZipEntries ==
    { fileEntry(<< S_a >>), dirEntry(<< S_d >>), fileEntry(<< S_d, S_a >>),
      fileEntry(<< S_dotdot, S_a >>),
      fileEntry(<< S_dotdot, S_Noraneko_Extracted \o <<"2">>, S_a >>),
      dirEntry(<< S_dot >>) }

Archives == UNION { [1..n -> ZipEntries] : n \in 0..MaxEntries }

\* the archives of the runs of the whole pipeline
RunArchives ==
    { << dirEntry(<< S_d >>), fileEntry(<< S_d, S_a >>) >>,
      << fileEntry(<< S_a >>), fileEntry(<< S_dotdot, S_a >>) >> }

\* the paths one extracted entry creates: the target and, through os.MkdirAll,
\* its parent directories that are not the destination or above it
entryPaths(entry, dest) ==
    LET fpath == Join(dest, entry.Name)
        new == {k \in 1..Len(fpath) :
                    k > Len(dest) \/ SubSeq(fpath, 1, k) # SubSeq(dest, 1, k)}
    IN {[path |-> SubSeq(fpath, 1, k), dir |-> (k < Len(fpath) \/ entry.IsDir)] : k \in new}

\* unzip(src, dest): opened is the result of zip.OpenReader, failAt the index of
\* an entry whose file operation fails (0: none); a failed os.MkdirAll of a
\* directory entry is ignored, any other failure ends the loop
unzip(entries, dest, opened, failAt) ==
    IF ~opened THEN [err |-> "not a valid zip file", written |-> {}]
    ELSE LET illegal == FirstIndex({i \in 1..Len(entries) :
                            ~isLegalPath(Join(dest, entries[i].Name), dest)})
             ioFail == IF failAt \in 1..Len(entries) /\ ~entries[failAt].IsDir
                       THEN failAt ELSE 0
             stop == FirstIndex({illegal, ioFail} \ {0})
             last == IF stop = 0 THEN Len(entries) ELSE stop - 1
             done == {i \in 1..last : i # failAt}
         IN [err |-> IF stop = 0 THEN ""
                     ELSE IF stop = illegal THEN "illegal file path"
                     ELSE "file operation failed",
             written |-> UNION {entryPaths(entries[i], dest) : i \in done}]

\* the content of dest among the created paths
contentOf(paths, dest) ==
    {x \in paths : Len(x.path) > Len(dest) /\ SubSeq(x.path, 1, Len(dest)) = dest}

\* the names of the archives in the order os.ReadDir and filepath.Walk list them
NameOrder == << S_a, S_d >>

nameRank(seg) == FirstIndex({i \in 1..Len(NameOrder) : NameOrder[i] = seg})

\* extractPortable, updater.go:410-417: the first directory of dest, else dest
sourceDirOf(paths, dest) ==
    LET dirs == {x.path[Len(dest) + 1] :
                    x \in {y \in contentOf(paths, dest) :
                                y.dir /\ Len(y.path) = Len(dest) + 1}}
    IN IF dirs = {} THEN dest
       ELSE Append(dest, CHOOSE n \in dirs : \A m \in dirs : nameRank(n) <= nameRank(m))

\* filepath.Walk visits p before q
walkBefore(p, q) ==
    \/ Len(p) < Len(q) /\ SubSeq(q, 1, Len(p)) = p
    \/ \E i \in 1..Len(p) :
          /\ i <= Len(q)
          /\ SubSeq(p, 1, i - 1) = SubSeq(q, 1, i - 1)
          /\ nameRank(p[i]) < nameRank(q[i])

\* the paths copyDir(src, dst) visits, relative to src; the root is <<>>
walkItems(paths, src) ==
    {<<>>} \cup {SubSeq(x.path, Len(src) + 1, Len(x.path)) : x \in contentOf(paths, src)}

\* what copyDir has written when it returns: every item, or the items before
\* the one at which the walk stopped with an error
copyResults(items) ==
    {items} \cup {{q \in items : walkBefore(q, p)} : p \in items}

\* what an installer process leaves in the install directory
S_installer == { << <<"<","s","e","t","u","p",">">> >> }

\* ------------------------------------------------------------------------
\* The install target, updater.go:384-387 and 515-518, config.go GetBrowserPath
\* ------------------------------------------------------------------------
S_ExeDir == <<"E","x","e","D","i","r">>
S_ProgramFiles == <<"P","r","o","g","r","a","m","F","i","l","e","s">>
S_Noraneko == <<"N","o","r","a","n","e","k","o">>
S_noraneko_exe == <<"n","o","r","a","n","e","k","o",".","e","x","e">>

\* the empty string as a path
S_emptyPath == <<>>

\* the results of cfg.GetBrowserPath(): no executable found, or the executable
\* below ExeDir or below ProgramFiles
BrowserPaths ==
    { S_emptyPath,
      << S_ExeDir, S_Noraneko, S_noraneko_exe >>,
      << S_ProgramFiles, S_Noraneko, S_noraneko_exe >> }

ConfiguredBrowserPath == << S_ProgramFiles, S_Noraneko, S_noraneko_exe >>

\* filepath.Dir: the path without its last element, "." when nothing is left
Dir(path) ==
    IF Len(path) <= 1 THEN << S_dot >> ELSE SubSeq(path, 1, Len(path) - 1)

\* browserDir of extractPortable and of runInstaller: the fallback is taken
\* when filepath.Dir returns the empty string
browserDirOf(path, fallback) ==
    LET browserDir == Dir(path)
    IN IF browserDir = S_emptyPath THEN fallback ELSE browserDir

extractTarget(path) == browserDirOf(path, << S_ExeDir, S_Noraneko >>)

installerTarget(path) == browserDirOf(path, << S_ProgramFiles, S_Noraneko >>)

\* exec.Command(setupPath, "/S", "/D="+browserDir) and
\* exec.Command(setupPath, "/D="+browserDir)
execCommand_AlwaysSilent(silent, dir) == [op |-> "exec", silent |-> TRUE, dir |-> dir]

execCommand(silent, dir) == [op |-> "exec", silent |-> silent, dir |-> dir]

\* ------------------------------------------------------------------------
\* The live install directory: files and directories by relative path; new
\* marks what the copy wrote. copyDir and copyFile, updater.go:475-511
\* ------------------------------------------------------------------------
S_o == <<"o">>

oldFile(path) == [path |-> path, dir |-> FALSE, new |-> FALSE]

\* an installation with a file the payload also has and a file it has not
InstalledFiles == { oldFile(<< S_a >>), oldFile(<< S_o >>) }

\* the install directories of a run: none yet, an installation, and one where
\* a directory stands at the place of a payload file
LiveDirs ==
    { {}, InstalledFiles,
      { [path |-> << S_a >>, dir |-> TRUE, new |-> FALSE], oldFile(<< S_o >>) } }

\* the item the walk of src visits at the relative path rel is a directory
isDirItem(paths, src, rel) ==
    rel = <<>> \/ \E x \in contentOf(paths, src) : x.path = src \o rel /\ x.dir

\* the items at which os.MkdirAll or os.Create fails because the destination
\* holds a file where the item is a directory, or a directory where it is a file
conflictsOf(live, paths, src) ==
    {rel \in walkItems(paths, src) :
        \E x \in live : x.path = rel /\ x.dir # isDirItem(paths, src, rel)}

\* the destination after the items `copied` were copied: os.MkdirAll keeps an
\* existing directory, os.Create and io.Copy replace the content of a file;
\* nothing is removed
copyInto_Mirror(live, paths, src, copied) ==
    {[path |-> rel, dir |-> isDirItem(paths, src, rel), new |-> TRUE] :
        rel \in copied \ {<<>>}}

copyInto(live, paths, src, copied) ==
    LET files == {rel \in copied : ~isDirItem(paths, src, rel)}
        dirs == {rel \in copied \ {<<>>} : isDirItem(paths, src, rel)}
    IN {x \in live : x.path \notin files}
       \cup {[path |-> rel, dir |-> FALSE, new |-> TRUE] : rel \in files}
       \cup {[path |-> rel, dir |-> TRUE, new |-> TRUE] :
                rel \in {d \in dirs : \A x \in live : x.path # d}}

\* ------------------------------------------------------------------------
\* Config.LogEntry, config.go:167-229
\* ------------------------------------------------------------------------
S_Log == <<"[","L","o","g","]">>
S_LastRun == <<"L","a","s","t","R","u","n">>
S_LastResult == <<"L","a","s","t","R","e","s","u","l","t">>

\* strings.TrimSpace
TrimSpace(s) ==
    LET keep == {i \in 1..Len(s) : ~IsSpace(s[i])}
    IN IF keep = {} THEN <<>>
       ELSE SubSeq(s, CHOOSE i \in keep : \A j \in keep : i <= j,
                      CHOOSE i \in keep : \A j \in keep : j <= i)

\* strings.Join(lines, "\n")
RECURSIVE JoinLines(_)
JoinLines(lines) ==
    IF lines = <<>> THEN <<>>
    ELSE IF Len(lines) = 1 THEN lines[1]
    ELSE lines[1] \o S_nl \o JoinLines(Tail(lines))

\* a trimmed line that starts with "[" and ends with "]"
isSectionHeader(trimmedLine) ==
    HasPrefix(trimmedLine, <<"[">>) /\ HasSuffix(trimmedLine, <<"]">>)

\* inLogSection after the loops of LogEntry have passed the first n lines
RECURSIVE inLogSection(_, _)
inLogSection(lines, n) ==
    IF n = 0 THEN FALSE
    ELSE LET trimmedLine == TrimSpace(lines[n])
         IN IF HasPrefix(trimmedLine, S_Log) THEN TRUE
            ELSE IF isSectionHeader(trimmedLine) THEN FALSE
            ELSE inLogSection(lines, n - 1)

\* the content LogEntry(key, value) writes over the content it read ("" when
\* the file cannot be read)
LogEntry(existing, key, value) ==
    LET existingContent == IF Contains(existing, S_Log) THEN existing
                           ELSE existing \o S_nl \o S_Log \o S_nl
        lines == SplitLines(existingContent)
        entry == key \o <<"=">> \o value
        \* first loop: the line of the key within the Log section
        found == FirstIndex({i \in 1..Len(lines) :
                    LET trimmedLine == TrimSpace(lines[i])
                    IN /\ ~HasPrefix(trimmedLine, S_Log)
                       /\ ~isSectionHeader(trimmedLine)
                       /\ inLogSection(lines, i - 1)
                       /\ HasPrefix(ToLower(trimmedLine), ToLower(key) \o <<"=">>)})
        \* second loop: the first blank line or section header after [Log]
        at == FirstIndex({i \in 1..Len(lines) :
                    LET trimmedLine == TrimSpace(lines[i])
                    IN /\ ~HasPrefix(trimmedLine, S_Log)
                       /\ inLogSection(lines, i - 1)
                       /\ (trimmedLine = <<>> \/ isSectionHeader(trimmedLine))})
    IN JoinLines(IF found # 0 THEN [lines EXCEPT ![found] = entry]
                 ELSE IF at # 0
                      THEN SubSeq(lines, 1, at - 1) \o << entry >>
                           \o SubSeq(lines, at, Len(lines))
                      ELSE Append(lines, entry))

\* configuration files: none, the file Save writes, files that hold a Log
\* section after or before the settings, and a file with a comment line
ConfigFiles ==
    LET settings == <<"[","S","e","t","t","i","n","g","s","]">>
        path == <<"P","a","t","h","=","0">>
        branch == <<"B","r","a","n","c","h","=","m">>
        comment == <<";"," ","n","o"," ">> \o S_Log
        lastRun == S_LastRun \o <<"=","0">>
    IN { S_empty,
         JoinLines(<< settings, path, branch, S_empty >>),
         JoinLines(<< settings, path, S_empty, S_Log, lastRun, S_empty >>),
         JoinLines(<< S_Log, lastRun, settings, path, S_empty >>),
         JoinLines(<< settings, comment, path, S_empty >>) }

\* ------------------------------------------------------------------------
\* State of one run of the updater
\* ------------------------------------------------------------------------
VARIABLES
    opts,            \* Options: Portable, CheckOnly
    cfgPortable,     \* result of cfg.IsPortable()
    pc,              \* position of the run
    currentVersion,  \* Run's currentVersion
    versionErr,      \* getCurrentVersion returned an error
    release,         \* u.release
    newVersion,      \* Run's newVersion
    newer,           \* result of isNewerVersion: "unknown", "yes", "no"
    asset,           \* asset selected by findAsset
    err,             \* error returned by Run ("" is nil)
    logged,          \* LogEntry calls made on the config file
    trace,           \* operations performed so far, in order
    workFiles,       \* names of the files present in cfg.WorkDir
    verified,        \* return of verifyChecksum: "none", "ok", "failed"
    manifest,        \* content of the downloaded checksum manifest
    actualHash,      \* digest computed over the downloaded file
    exitStatus,      \* process exit status, -1 while running
    verifyErr,       \* error returned by verifyChecksum ("" is nil)
    archive,         \* entries of the downloaded file read as a zip archive
    staging,         \* the extract directory: "absent", "present", "removed"
    written,         \* paths created by unzip so far
    installDir,      \* paths written into the live install directory
    browserPath,     \* result of cfg.GetBrowserPath()
    installCalls,    \* calls of copyDir and of the installer, with their target
    liveDir,         \* files and directories of the live install directory
    checksumAsset,   \* result of findChecksumAsset in downloadAndInstall
    configFile,      \* content of the configuration file
    configFile0      \* its content before the first LogEntry call

vars == << opts, cfgPortable, pc, currentVersion, versionErr, release, newVersion,
           newer, asset, err, logged, trace, workFiles, verified, manifest,
           actualHash, exitStatus, verifyErr, archive, staging, written,
           installDir, browserPath, installCalls, liveDir, checksumAsset,
           configFile, configFile0 >>

Init ==
    /\ opts \in [Portable : BOOLEAN, CheckOnly : BOOLEAN]
    /\ cfgPortable \in BOOLEAN
    /\ pc = "checkConnection"
    /\ currentVersion = S_empty
    /\ versionErr = FALSE
    /\ release = NoRelease
    /\ newVersion = S_empty
    /\ newer = "unknown"
    /\ asset = NoAsset
    /\ err = ""
    /\ logged = <<>>
    /\ trace = <<>>
    /\ workFiles = {}
    /\ verified = "none"
    /\ manifest = S_empty
    /\ actualHash = S_empty
    /\ exitStatus = -1
    /\ verifyErr = ""
    /\ archive = <<>>
    /\ staging = "absent"
    /\ written = {}
    /\ installDir = {}
    /\ browserPath = ConfiguredBrowserPath
    /\ installCalls = <<>>
    /\ liveDir = InstalledFiles
    /\ checksumAsset = NoAsset
    /\ configFile = S_empty
    /\ configFile0 = S_empty

\* one operation of the run and whether it succeeded
Ev(op, ok) == [op |-> op, ok |-> ok]

\* Run returns e
Return(e) ==
    /\ pc' = "returned"
    /\ err' = e

\* ------------------------------------------------------------------------
\* Run, updater.go:67-117
\* ------------------------------------------------------------------------
CheckConnection ==
    /\ pc = "checkConnection"
    /\ \E ok \in BOOLEAN :
        /\ trace' = Append(trace, Ev("checkConnection", ok))
        /\ IF ok
           THEN /\ pc' = "getCurrentVersion"
                /\ err' = err
           ELSE Return("connection check failed")
    /\ UNCHANGED << opts, cfgPortable, currentVersion, versionErr, release, newVersion,
                    newer, asset, logged, workFiles, verified, manifest, actualHash,
                    exitStatus,
                    verifyErr, archive, staging, written, installDir,
                    browserPath, installCalls, liveDir, checksumAsset, configFile, configFile0 >>

GetCurrentVersion ==
    /\ pc = "getCurrentVersion"
    /\ \/ /\ versionErr' = TRUE
          /\ currentVersion' = S_000
          /\ trace' = Append(trace, Ev("getCurrentVersion", FALSE))
       \/ /\ versionErr' = FALSE
          /\ currentVersion' \in RunVersions
          /\ trace' = Append(trace, Ev("getCurrentVersion", TRUE))
    /\ pc' = "getLatestRelease"
    /\ UNCHANGED << opts, cfgPortable, release, newVersion, newer, asset, err, logged,
                    workFiles, verified, manifest, actualHash, exitStatus,
                    verifyErr, archive, staging, written, installDir,
                    browserPath, installCalls, liveDir, checksumAsset, configFile, configFile0 >>

GetLatestRelease ==
    /\ pc = "getLatestRelease"
    /\ \/ /\ trace' = Append(trace, Ev("getLatestRelease", FALSE))
          /\ Return("failed to get latest release")
          /\ UNCHANGED << release, newVersion >>
       \/ /\ \E tag \in RunVersions, assets \in RunAssetLists :
                /\ release' = [TagName |-> tag, Assets |-> assets]
                /\ newVersion' = TrimPrefix(tag, S_v)
          /\ trace' = Append(trace, Ev("getLatestRelease", TRUE))
          /\ pc' = "compare"
          /\ err' = err
    /\ UNCHANGED << opts, cfgPortable, currentVersion, versionErr, newer, asset, logged,
                    workFiles, verified, manifest, actualHash, exitStatus,
                    verifyErr, archive, staging, written, installDir,
                    browserPath, installCalls, liveDir, checksumAsset, configFile, configFile0 >>

\* what Run does once the comparison is known, updater.go:96-110
afterCompare_IgnoreCheckOnly(isNewer, checkOnly) ==
    IF ~isNewer THEN "noUpdate" ELSE "install"

afterCompare(isNewer, checkOnly) ==
    IF ~isNewer THEN "noUpdate"
    ELSE IF checkOnly THEN "checkOnly"
    ELSE "install"

CompareVersions ==
    /\ pc = "compare"
    /\ LET isNewer == isNewerVersion(currentVersion, newVersion)
           branch == afterCompare(isNewer, opts.CheckOnly)
           tr == Append(trace, Ev("isNewerVersion", TRUE))
       IN /\ newer' = IF isNewer THEN "yes" ELSE "no"
          /\ CASE branch = "noUpdate" ->
                    /\ logged' = logResult(logged, S_NoNewVersionFound)
                    /\ trace' = Append(tr, Ev("logResult", TRUE))
                    /\ Return("")
               [] branch = "checkOnly" ->
                    /\ logged' = logged
                    /\ trace' = tr
                    /\ Return("")
               [] OTHER ->
                    /\ logged' = logged
                    /\ trace' = tr
                    /\ pc' = "findAsset"
                    /\ err' = err
    /\ UNCHANGED << opts, cfgPortable, currentVersion, versionErr, release, newVersion,
                    asset, workFiles, verified, manifest, actualHash, exitStatus,
                    verifyErr, archive, staging, written, installDir,
                    browserPath, installCalls, liveDir, checksumAsset, configFile, configFile0 >>

\* ------------------------------------------------------------------------
\* downloadAndInstall, updater.go:207-241, and the end of Run, updater.go:110-116
\* ------------------------------------------------------------------------
isPortableMode == cfgPortable \/ opts.Portable

\* downloadAndInstall returns e with the files `files` in the work directory and
\* the operations `tr` performed: the deferred os.Remove(downloadPath) runs, and
\* Run logs the update or returns the wrapped error
finish_LogOnFailure(e, files, tr) ==
    /\ workFiles' = files \ {asset.Name}
    /\ logged' = logResult(logged, UpdatedMessage(currentVersion, newVersion))
    /\ trace' = Append(tr, Ev("logResult", TRUE))
    /\ Return(e)

finish(e, files, tr) ==
    /\ workFiles' = files \ {asset.Name}
    /\ IF e = ""
       THEN /\ logged' = logResult(logged, UpdatedMessage(currentVersion, newVersion))
            /\ trace' = Append(tr, Ev("logResult", TRUE))
            /\ Return("")
       ELSE /\ logged' = logged
            /\ trace' = tr
            /\ Return(e)

FindAsset ==
    /\ pc = "findAsset"
    /\ LET r == findAsset(release.Assets, isPortableMode)
       IN /\ trace' = Append(trace, Ev("findAsset", r.ok))
          /\ IF r.ok
             THEN /\ asset' = r.asset
                  /\ pc' = "download"
                  /\ err' = err
             ELSE /\ asset' = asset
                  /\ Return("update failed: failed to find download")
    /\ UNCHANGED << opts, cfgPortable, currentVersion, versionErr, release, newVersion,
                    newer, logged, workFiles, verified, manifest, actualHash, exitStatus,
                    verifyErr, archive, staging, written, installDir,
                    browserPath, installCalls, liveDir, checksumAsset, configFile, configFile0 >>

\* outcomes of downloadFile: the request or os.Create fails and no file is written,
\* io.Copy fails after the file was created, or the whole body is written
DownloadOutcomes == {"ok", "failNoFile", "failPartial"}

\* the files of the work directory after downloadFile(url, WorkDir/name)
downloadFile(files, name, outcome) ==
    IF outcome = "failNoFile" THEN files ELSE files \cup {name}

\* the strategy of updater.go:233-240
installStrategy_IgnoreSuffix(isPortable, assetName) ==
    IF isPortable THEN "extractPortable" ELSE "runInstaller"

installStrategy(isPortable, assetName) ==
    IF isPortable \/ HasSuffix(assetName, S_zip) THEN "extractPortable" ELSE "runInstaller"

\* the entries of the downloaded file, which are read only by extractPortable
archivesOf(outcome, strategy) ==
    IF outcome = "ok" /\ strategy = "extractPortable" THEN RunArchives ELSE {<<>>}

DownloadAsset_IgnoreError ==
    /\ pc = "download"
    /\ \E outcome \in DownloadOutcomes :
        /\ trace' = Append(trace, Ev("downloadFile", outcome = "ok"))
        /\ workFiles' = downloadFile(workFiles, asset.Name, outcome)
        /\ archive' \in archivesOf(outcome, installStrategy(isPortableMode, asset.Name))
        /\ pc' = "checksum"
        /\ err' = err
    /\ UNCHANGED << opts, cfgPortable, currentVersion, versionErr, release, newVersion,
                    newer, asset, logged, verified, manifest, actualHash, exitStatus,
                    verifyErr, staging, written, installDir,
                    browserPath, installCalls, liveDir, checksumAsset, configFile, configFile0 >>

DownloadAsset ==
    /\ pc = "download"
    /\ \E outcome \in DownloadOutcomes :
        /\ trace' = Append(trace, Ev("downloadFile", outcome = "ok"))
        /\ workFiles' = downloadFile(workFiles, asset.Name, outcome)
        /\ archive' \in archivesOf(outcome, installStrategy(isPortableMode, asset.Name))
        /\ IF outcome = "ok"
           THEN /\ pc' = "checksum"
                /\ err' = err
           ELSE Return("update failed: download failed")
    /\ UNCHANGED << opts, cfgPortable, currentVersion, versionErr, release, newVersion,
                    newer, asset, logged, verified, manifest, actualHash, exitStatus,
                    verifyErr, staging, written, installDir,
                    browserPath, installCalls, liveDir, checksumAsset, configFile, configFile0 >>

\* updater.go:226-228: a verification error ends downloadAndInstall
verifyBlocks_Never(e) == FALSE

verifyBlocks(e) == e # ""

\* outcomes of the file operations of verifyChecksum after the manifest download
VerifyIO == {"ok", "readFail", "openFail", "hashFail"}

\* the error of verifyChecksum, updater.go:329-380
verifyChecksum(dl, io, data, fileName, fileHash) ==
    IF dl # "ok" THEN "failed to download checksum file"
    ELSE IF io = "readFail" THEN "failed to read checksum file"
    ELSE IF expectedHashOf(data, fileName) = S_empty
         THEN "checksum not found in checksum file"
    ELSE IF io # "ok" THEN "failed to hash the file"
    ELSE compareChecksum(data, fileName, fileHash)

\* the runs of verifyChecksum the environment can produce: an input that the run
\* does not get to read is left at a default
VerifyCases(fileName) ==
    {[dl |-> d, io |-> "ok", m |-> S_empty, h |-> H1] :
        d \in DownloadOutcomes \ {"ok"}}
    \cup {[dl |-> "ok", io |-> "readFail", m |-> S_empty, h |-> H1]}
    \cup {[dl |-> "ok", io |-> i, m |-> d, h |-> H1] :
            i \in {"openFail", "hashFail"}, d \in ManifestsFor(fileName)}
    \cup {[dl |-> "ok", io |-> "ok", m |-> d, h |-> x] :
            d \in ManifestsFor(fileName), x \in ActualHashes}

ChecksumStage ==
    /\ pc = "checksum"
    /\ LET ca == findChecksumAsset(release.Assets)
           next == installStrategy(isPortableMode, asset.Name)
       IN /\ checksumAsset' = ca
          /\ IF ca = NoAsset
             THEN /\ pc' = next
                  /\ UNCHANGED << err, logged, trace, workFiles, verified, manifest,
                                  actualHash, verifyErr >>
             ELSE \E c \in VerifyCases(asset.Name) :
                   LET dl == c.dl
                       io == c.io
                       m == c.m
                       h == c.h
                       e == verifyChecksum(dl, io, m, asset.Name, h)
                       tr == Append(trace, Ev("verifyChecksum", e = ""))
                       \* the manifest file is removed by the deferred os.Remove
                       \* only when its download succeeded
                       files == IF dl = "ok" THEN workFiles \ {ca.Name}
                                ELSE downloadFile(workFiles, ca.Name, dl)
                   IN /\ manifest' = IF dl = "ok" /\ io # "readFail" THEN m ELSE manifest
                      /\ actualHash' = IF dl = "ok" /\ io = "ok"
                                          /\ expectedHashOf(m, asset.Name) # S_empty
                                       THEN h ELSE actualHash
                      /\ verified' = IF e = "" THEN "ok" ELSE "failed"
                      /\ verifyErr' = e
                      /\ IF verifyBlocks(e)
                         THEN finish("update failed: checksum verification failed", files, tr)
                         ELSE /\ trace' = tr
                              /\ workFiles' = files
                              /\ pc' = next
                              /\ UNCHANGED << err, logged >>
    /\ UNCHANGED << opts, cfgPortable, currentVersion, versionErr, release, newVersion,
                    newer, asset, exitStatus, archive, staging, written, installDir,
                    browserPath, installCalls, liveDir, configFile, configFile0 >>

\* ------------------------------------------------------------------------
\* Install strategies, updater.go:383-425 and updater.go:514-530
\* ------------------------------------------------------------------------
\* the extract directory when extractPortable returns e, once os.MkdirAll has
\* succeeded: the deferred os.RemoveAll(extractDir) of updater.go:397 has run
stagingOnReturn_OnlyOnSuccess(e) == IF e = "" THEN "removed" ELSE "present"

stagingOnReturn(e) == "removed"

\* extractPortable up to the creation of the extract directory, updater.go:384-397
ExtractPortable ==
    /\ pc = "extractPortable"
    /\ \E outcome \in {"ok", "cleanFail", "mkdirFail"} :
        CASE outcome = "cleanFail" ->
                /\ staging' = staging
                /\ finish("update failed: failed to clean extract directory", workFiles,
                          Append(trace, Ev("extractPortable", FALSE)))
          [] outcome = "mkdirFail" ->
                /\ staging' = "absent"
                /\ finish("update failed: failed to create extract directory", workFiles,
                          Append(trace, Ev("extractPortable", FALSE)))
          [] OTHER ->
                /\ staging' = "present"
                /\ pc' = "unzip"
                /\ UNCHANGED << err, logged, trace, workFiles >>
    /\ UNCHANGED << opts, cfgPortable, currentVersion, versionErr, release, newVersion,
                    newer, asset, verified, manifest, actualHash, exitStatus,
                    verifyErr, archive, written, installDir,
                    browserPath, installCalls, liveDir, checksumAsset, configFile, configFile0 >>

\* what extractPortable does with the result of unzip, updater.go:400-402
afterUnzip_IgnoreError(e) == "copyDir"

afterUnzip(e) == IF e = "" THEN "copyDir" ELSE "return"

\* the call of unzip in extractPortable, updater.go:400-402 and 428-472
Unzip ==
    /\ pc = "unzip"
    /\ \E opened \in BOOLEAN, failAt \in 0..Len(archive) :
        LET r == unzip(archive, extractDir, opened, failAt)
        IN /\ written' = written \cup r.written
           /\ IF afterUnzip(r.err) = "copyDir"
              THEN /\ pc' = "copyDir"
                   /\ UNCHANGED << err, logged, trace, workFiles, staging >>
              ELSE LET e == IF r.err = "illegal file path"
                            THEN "update failed: extraction failed: illegal file path"
                            ELSE "update failed: extraction failed"
                   IN /\ staging' = stagingOnReturn(e)
                      /\ finish(e, workFiles, Append(trace, Ev("extractPortable", FALSE)))
    /\ UNCHANGED << opts, cfgPortable, currentVersion, versionErr, release, newVersion,
                    newer, asset, verified, manifest, actualHash, exitStatus,
                    verifyErr, archive, installDir,
                    browserPath, installCalls, liveDir, checksumAsset, configFile, configFile0 >>

\* the rest of extractPortable: os.ReadDir, the choice of the source directory
\* and copyDir into the browser directory, updater.go:405-424 and 475-493
CopyDir ==
    /\ pc = "copyDir"
    /\ \E readOk \in BOOLEAN :
        IF ~readOk
        THEN /\ UNCHANGED << installDir, installCalls, liveDir >>
             /\ staging' = stagingOnReturn("update failed: cannot list extract directory")
             /\ finish("update failed: cannot list extract directory", workFiles,
                       Append(trace, Ev("extractPortable", FALSE)))
        ELSE LET sourceDir == sourceDirOf(written, extractDir)
                 items == walkItems(written, sourceDir)
                 conflicts == conflictsOf(liveDir, written, sourceDir)
             IN \E copied \in {c \in copyResults(items) : c \cap conflicts = {}} :
                 LET e == IF copied = items THEN ""
                          ELSE "update failed: failed to copy files"
                 IN /\ installDir' = installDir \cup copied
                    /\ installCalls' = Append(installCalls,
                            [op |-> "copyDir", silent |-> FALSE,
                             dir |-> extractTarget(browserPath)])
                    /\ liveDir' = copyInto(liveDir, written, sourceDir, copied)
                    /\ staging' = stagingOnReturn(e)
                    /\ finish(e, workFiles,
                              Append(trace, Ev("extractPortable", e = "")))
    /\ UNCHANGED << opts, cfgPortable, currentVersion, versionErr, release, newVersion,
                    newer, asset, verified, manifest, actualHash, exitStatus,
                    verifyErr, archive, written, browserPath, checksumAsset,
                    configFile, configFile0 >>

\* the silent invocation: exec.Command(setupPath, "/S", "/D="+browserDir)
RunInstallerSilent ==
    /\ pc = "runInstaller"
    /\ installCalls' = Append(installCalls,
                              execCommand(TRUE, installerTarget(browserPath)))
    /\ \E ok \in BOOLEAN :
        IF ok
        THEN /\ installDir' = installDir \cup S_installer
             /\ finish("", workFiles, Append(trace, Ev("runInstaller:silent", TRUE)))
        ELSE /\ installDir' \in {installDir, installDir \cup S_installer}
             /\ trace' = Append(trace, Ev("runInstaller:silent", FALSE))
             /\ pc' = "runInstallerInteractive"
             /\ UNCHANGED << err, logged, workFiles >>
    /\ UNCHANGED << opts, cfgPortable, currentVersion, versionErr, release, newVersion,
                    newer, asset, verified, manifest, actualHash, exitStatus,
                    verifyErr, archive, staging, written, browserPath, liveDir,
                    checksumAsset, configFile, configFile0 >>

\* the interactive invocation: exec.Command(setupPath, "/D="+browserDir)
RunInstallerInteractive ==
    /\ pc = "runInstallerInteractive"
    /\ installCalls' = Append(installCalls,
                              execCommand(FALSE, installerTarget(browserPath)))
    /\ \E ok \in BOOLEAN :
        /\ installDir' \in IF ok THEN {installDir \cup S_installer}
                            ELSE {installDir, installDir \cup S_installer}
        /\ finish(IF ok THEN "" ELSE "update failed: installer failed",
                  workFiles, Append(trace, Ev("runInstaller:interactive", ok)))
    /\ UNCHANGED << opts, cfgPortable, currentVersion, versionErr, release, newVersion,
                    newer, asset, verified, manifest, actualHash, exitStatus,
                    verifyErr, archive, staging, written, browserPath, liveDir,
                    checksumAsset, configFile, configFile0 >>

\* ------------------------------------------------------------------------
\* main, after Run returned
\* ------------------------------------------------------------------------
exitCode_AlwaysZero(e) == 0

exitCode(e) == IF e # "" THEN 1 ELSE 0

MainExit ==
    /\ pc = "returned"
    /\ pc' = "exited"
    /\ exitStatus' = exitCode(err)
    /\ UNCHANGED << opts, cfgPortable, currentVersion, versionErr, release, newVersion,
                    newer, asset, err, logged, trace, workFiles, verified, manifest,
                    actualHash, verifyErr, archive, staging, written, installDir,
                    browserPath, installCalls, liveDir, checksumAsset, configFile, configFile0 >>

Next ==
    \/ CheckConnection
    \/ GetCurrentVersion
    \/ GetLatestRelease
    \/ CompareVersions
    \/ FindAsset
    \/ DownloadAsset
    \/ ChecksumStage
    \/ ExtractPortable
    \/ Unzip
    \/ CopyDir
    \/ RunInstallerSilent
    \/ RunInstallerInteractive
    \/ MainExit

Spec == Init /\ [][Next]_vars

\* ------------------------------------------------------------------------
\* findAsset alone: the run stands at asset resolution, for every release asset
\* list and every portable setting
\* ------------------------------------------------------------------------
InitAsset ==
    /\ opts \in [Portable : BOOLEAN, CheckOnly : {FALSE}]
    /\ cfgPortable \in BOOLEAN
    /\ pc = "findAsset"
    /\ currentVersion = S_000
    /\ versionErr = TRUE
    /\ release \in {[TagName |-> S_v \o S_200, Assets |-> l] : l \in AssetLists}
    /\ newVersion = S_200
    /\ newer = "yes"
    /\ asset = NoAsset
    /\ err = ""
    /\ logged = <<>>
    /\ trace = << Ev("checkConnection", TRUE), Ev("getCurrentVersion", FALSE),
                  Ev("getLatestRelease", TRUE), Ev("isNewerVersion", TRUE) >>
    /\ workFiles = {}
    /\ verified = "none"
    /\ manifest = S_empty
    /\ actualHash = S_empty
    /\ exitStatus = -1
    /\ verifyErr = ""
    /\ archive = <<>>
    /\ staging = "absent"
    /\ written = {}
    /\ installDir = {}
    /\ browserPath = ConfiguredBrowserPath
    /\ installCalls = <<>>
    /\ liveDir = InstalledFiles
    /\ checksumAsset = NoAsset
    /\ configFile = S_empty
    /\ configFile0 = S_empty

NextAsset == FindAsset

SpecAsset == InitAsset /\ [][NextAsset]_vars

\* ------------------------------------------------------------------------
\* the checksum stage alone: the asset findAsset selected has been downloaded,
\* for release asset lists with none, one or several checksum files
\* ------------------------------------------------------------------------
InitChecksum ==
    /\ opts \in [Portable : BOOLEAN, CheckOnly : {FALSE}]
    /\ cfgPortable = FALSE
    /\ pc = "checksum"
    /\ currentVersion = S_000
    /\ versionErr = TRUE
    /\ \E l \in UNION { [1..n -> [Name : {A_winzip, ToUpper(A_winzip), A_setup, A_sums,
                                           ToUpper(A_sums), A_winzip_sha256}]] :
                            n \in 1..MaxAssets } :
          /\ \A i, j \in 1..Len(l) : l[i].Name = l[j].Name => i = j
          /\ findAsset(l, isPortableMode).ok
          /\ release = [TagName |-> S_v \o S_200, Assets |-> l]
    /\ newVersion = S_200
    /\ newer = "yes"
    /\ asset = findAsset(release.Assets, isPortableMode).asset
    /\ err = ""
    /\ logged = <<>>
    /\ trace = << Ev("checkConnection", TRUE), Ev("getCurrentVersion", FALSE),
                  Ev("getLatestRelease", TRUE), Ev("isNewerVersion", TRUE),
                  Ev("findAsset", TRUE), Ev("downloadFile", TRUE) >>
    /\ workFiles = {asset.Name}
    /\ verified = "none"
    /\ manifest = S_empty
    /\ actualHash = S_empty
    /\ exitStatus = -1
    /\ verifyErr = ""
    /\ archive = <<>>
    /\ staging = "absent"
    /\ written = {}
    /\ installDir = {}
    /\ browserPath = ConfiguredBrowserPath
    /\ installCalls = <<>>
    /\ liveDir = InstalledFiles
    /\ checksumAsset = NoAsset
    /\ configFile = S_empty
    /\ configFile0 = S_empty

NextChecksum == ChecksumStage

SpecChecksum == InitChecksum /\ [][NextChecksum]_vars

\* ------------------------------------------------------------------------
\* Config.LogEntry alone: calls with the keys of logResult on a configuration
\* file
\* ------------------------------------------------------------------------
LogEntryCall ==
    /\ Len(logged) < MaxLogCalls
    /\ \E key \in {"LastRun", "LastResult"}, value \in {<<"1">>, <<"2">>} :
        /\ configFile' = LogEntry(configFile,
                                  IF key = "LastRun" THEN S_LastRun ELSE S_LastResult,
                                  value)
        /\ logged' = Append(logged, [key |-> key, value |-> value])
    /\ UNCHANGED << opts, cfgPortable, pc, currentVersion, versionErr, release,
                    newVersion, newer, asset, err, trace, workFiles, verified,
                    manifest, actualHash, exitStatus, verifyErr, archive, staging,
                    written, installDir, browserPath, installCalls, liveDir,
                    checksumAsset, configFile0 >>

InitLog ==
    /\ opts = [Portable |-> FALSE, CheckOnly |-> FALSE]
    /\ cfgPortable = FALSE
    /\ pc = "logResult"
    /\ currentVersion = S_200
    /\ versionErr = FALSE
    /\ release = [TagName |-> S_v \o S_200, Assets |-> <<>>]
    /\ newVersion = S_200
    /\ newer = "no"
    /\ asset = NoAsset
    /\ err = ""
    /\ logged = <<>>
    /\ trace = << Ev("checkConnection", TRUE), Ev("getCurrentVersion", TRUE),
                  Ev("getLatestRelease", TRUE), Ev("isNewerVersion", FALSE) >>
    /\ workFiles = {}
    /\ verified = "none"
    /\ manifest = S_empty
    /\ actualHash = S_empty
    /\ exitStatus = -1
    /\ verifyErr = ""
    /\ archive = <<>>
    /\ staging = "absent"
    /\ written = {}
    /\ installDir = {}
    /\ browserPath = ConfiguredBrowserPath
    /\ installCalls = <<>>
    /\ liveDir = InstalledFiles
    /\ checksumAsset = NoAsset
    /\ configFile \in ConfigFiles
    /\ configFile0 = configFile

NextLog == LogEntryCall

SpecLog == InitLog /\ [][NextLog]_vars

\* ------------------------------------------------------------------------
\* isNewerVersion alone: the run stands at the comparison, for every current
\* version and every release tag
\* ------------------------------------------------------------------------
InitVersion ==
    /\ opts \in [Portable : {FALSE}, CheckOnly : BOOLEAN]
    /\ cfgPortable = FALSE
    /\ pc = "compare"
    /\ currentVersion \in Versions
    /\ versionErr = FALSE
    /\ release \in {[TagName |-> t, Assets |-> <<>>] : t \in Versions}
    /\ newVersion = TrimPrefix(release.TagName, S_v)
    /\ newer = "unknown"
    /\ asset = NoAsset
    /\ err = ""
    /\ logged = <<>>
    /\ trace = << Ev("checkConnection", TRUE), Ev("getCurrentVersion", TRUE),
                  Ev("getLatestRelease", TRUE) >>
    /\ workFiles = {}
    /\ verified = "none"
    /\ manifest = S_empty
    /\ actualHash = S_empty
    /\ exitStatus = -1
    /\ verifyErr = ""
    /\ archive = <<>>
    /\ staging = "absent"
    /\ written = {}
    /\ installDir = {}
    /\ browserPath = ConfiguredBrowserPath
    /\ installCalls = <<>>
    /\ liveDir = InstalledFiles
    /\ checksumAsset = NoAsset
    /\ configFile = S_empty
    /\ configFile0 = S_empty

NextVersion == CompareVersions

SpecVersion == InitVersion /\ [][NextVersion]_vars

\* ------------------------------------------------------------------------
\* The install strategies alone: the run stands at the extraction of a
\* downloaded archive, for every archive, install directory and browser path
\* and with or without an extract directory left by an earlier run, or at the
\* invocation of a downloaded installer
\* ------------------------------------------------------------------------
InitExtract ==
    /\ opts \in [Portable : BOOLEAN, CheckOnly : {FALSE}]
    /\ cfgPortable = FALSE
    /\ currentVersion = S_000
    /\ versionErr = TRUE
    /\ newVersion = S_200
    /\ newer = "yes"
    /\ err = ""
    /\ logged = <<>>
    /\ trace = << Ev("checkConnection", TRUE), Ev("getCurrentVersion", FALSE),
                  Ev("getLatestRelease", TRUE), Ev("isNewerVersion", TRUE),
                  Ev("findAsset", TRUE), Ev("downloadFile", TRUE) >>
    /\ verified = "none"
    /\ manifest = S_empty
    /\ actualHash = S_empty
    /\ exitStatus = -1
    /\ verifyErr = ""
    /\ written = {}
    /\ installDir = {}
    /\ browserPath \in BrowserPaths
    /\ installCalls = <<>>
    /\ checksumAsset = NoAsset
    /\ configFile = S_empty
    /\ configFile0 = S_empty
    /\ \/ /\ pc = "extractPortable"
          /\ asset = [Name |-> A_winzip]
          /\ archive \in Archives
          /\ staging \in {"absent", "stale"}
          /\ liveDir \in LiveDirs
       \/ /\ pc = "runInstaller"
          /\ opts.Portable = FALSE
          /\ asset = [Name |-> A_setup]
          /\ archive = <<>>
          /\ staging = "absent"
          /\ liveDir = InstalledFiles
    /\ release = [TagName |-> S_v \o S_200, Assets |-> << asset >>]
    /\ workFiles = {asset.Name}

NextExtract ==
    \/ ExtractPortable
    \/ Unzip
    \/ CopyDir
    \/ RunInstallerSilent
    \/ RunInstallerInteractive

SpecExtract == InitExtract /\ [][NextExtract]_vars

\* ------------------------------------------------------------------------
\* Properties
\* ------------------------------------------------------------------------
InstallOps == {"extractPortable", "runInstaller:silent", "runInstaller:interactive"}

InstallPcs == {"extractPortable", "unzip", "copyDir", "runInstaller", "runInstallerInteractive"}

\* the operations whose failure ends the run
AbortingOps == {"checkConnection", "getLatestRelease", "findAsset", "downloadFile",
                "verifyChecksum"}

Happened(op) == \E i \in 1..Len(trace) : trace[i].op = op

Ended == pc \in {"returned", "exited"}

\* the release lists an asset with a checksum-manifest name
HasManifestAsset ==
    \E i \in 1..Len(release.Assets) : isChecksumName(release.Assets[i].Name)

\* an install strategy returned success
InstallSucceeded ==
    \E i \in 1..Len(trace) : trace[i].op \in InstallOps /\ trace[i].ok

UpdatedLogged ==
    \E i \in 1..Len(logged) :
        logged[i].key = "LastResult" /\ HasPrefix(logged[i].value, S_UpdatedFrom)

\* C1: when the release has a checksum manifest asset, an install strategy is
\* entered only after verifyChecksum returned success in this run; when it has
\* none, the strategy is entered with no verification step at all.
C1_VerifiedBeforeInstall ==
    LET installAt == {i \in 1..Len(trace) : trace[i].op \in InstallOps}
    IN (pc \in InstallPcs \/ installAt # {}) =>
        IF HasManifestAsset
        THEN /\ verified = "ok"
             /\ \E j \in 1..Len(trace) :
                    /\ trace[j] = Ev("verifyChecksum", TRUE)
                    /\ \A i \in installAt : j < i
        ELSE /\ verified = "none"
             /\ ~Happened("verifyChecksum")

C1_Witness ==
    /\ HasManifestAsset
    /\ verified = "ok"
    /\ Happened("extractPortable")

\* C2: asset resolution, download, verification and install happen only in a
\* run whose comparison said newer and that is not check-only; a run that ends
\* at "not newer" or at the check-only short-circuit returns nil and has
\* downloaded and installed nothing.
C2_InstallOnlyIfNewerAndNotCheckOnly ==
    LET acted == \/ pc \in {"findAsset", "download", "checksum"} \cup InstallPcs
                 \/ \E i \in 1..Len(trace) :
                        trace[i].op \in {"findAsset", "downloadFile", "verifyChecksum"}
                                        \cup InstallOps
    IN /\ acted => (newer = "yes" /\ ~opts.CheckOnly)
       /\ (Ended /\ (newer = "no" \/ (newer = "yes" /\ opts.CheckOnly))) =>
            (err = "" /\ ~acted /\ workFiles = {})

C2_Witness ==
    /\ pc = "returned"
    /\ newer = "yes"
    /\ opts.CheckOnly
    /\ err = ""

\* C3: every run that got past release lookup and returns nil has written the
\* LastRun/LastResult pair, exactly once.
C3_OutcomeLoggedOnce ==
    (Ended /\ err = "" /\ Happened("isNewerVersion")) =>
        /\ Cardinality({i \in 1..Len(trace) : trace[i].op = "logResult"}) = 1
        /\ Len(logged) = 2
        /\ logged[1].key = "LastRun"
        /\ logged[2].key = "LastResult"

\* C4: "Updated from <current> to <latest>" is recorded only after an install
\* strategy returned success; a run that returns an error records nothing; a
\* finished run is exactly one of no-update, updated, failed.
C4_UpdatedOnlyAfterInstall ==
    /\ UpdatedLogged =>
        /\ InstallSucceeded
        /\ err = ""
        /\ logged[Len(logged)].value = UpdatedMessage(currentVersion, newVersion)
    /\ err # "" => logged = <<>>
    /\ Ended =>
        Cardinality({k \in {"noUpdate", "updated", "failed"} :
                        \/ k = "noUpdate" /\ err = "" /\ ~Happened("findAsset")
                        \/ k = "updated" /\ UpdatedLogged
                        \/ k = "failed" /\ err # ""}) = 1

C4_Witness ==
    /\ pc = "returned"
    /\ UpdatedLogged
    /\ Happened("runInstaller:interactive")

\* C5: a failure of the connectivity check, the release lookup, asset resolution,
\* the download or the checksum verification is the last operation of the run.
C5_AbortAtFailedStage ==
    \A i \in 1..Len(trace) :
        (trace[i].op \in AbortingOps /\ ~trace[i].ok) =>
            /\ i = Len(trace)
            /\ Ended
            /\ err # ""

C5_Witness ==
    /\ pc = "returned"
    /\ Len(trace) > 0
    /\ trace[Len(trace)] = Ev("downloadFile", FALSE)

\* C6: Run returns nil (exit status 0) exactly for "not newer", the check-only
\* short-circuit and a successful install; it returns an error (exit status 1)
\* exactly when some stage aborted.
C6_ErrorIffAborted ==
    Ended =>
        LET success == \/ newer = "no"
                       \/ newer = "yes" /\ opts.CheckOnly
                       \/ InstallSucceeded
            aborted == \E i \in 1..Len(trace) :
                          /\ ~trace[i].ok
                          /\ trace[i].op \in AbortingOps \cup
                                {"extractPortable", "runInstaller:interactive"}
        IN /\ (err = "") <=> success
           /\ (err # "") <=> aborted
           /\ pc = "exited" => /\ exitStatus \in {0, 1}
                               /\ (exitStatus = 0) <=> (err = "")

C6_Witness ==
    /\ pc = "exited"
    /\ exitStatus = 1
    /\ Len(trace) > 0
    /\ trace[Len(trace)] = Ev("runInstaller:interactive", FALSE)

\* C7: when current-version discovery fails the run goes on to the release
\* lookup with current version "0.0.0", the comparison says newer for every
\* tag, and unless check-only the run reaches asset resolution.
C7_DiscoveryFailureContinues ==
    versionErr =>
        /\ currentVersion = S_000
        /\ pc = "getLatestRelease" \/ Happened("getLatestRelease")
        /\ newer # "no"
        /\ (newer = "yes" /\ ~opts.CheckOnly) =>
                (pc = "findAsset" \/ Happened("findAsset"))

C7_Witness ==
    /\ versionErr
    /\ newVersion = S_000
    /\ newer = "yes"
    /\ Happened("findAsset")

\* C8: the asset findAsset returns matches a fragment of at least the priority
\* of every fragment that some asset of the release matches, whatever the
\* order of the assets.
C8_FragmentPriority ==
    (Happened("findAsset") /\ asset # NoAsset) =>
        LET sfx == suffixes(isPortableMode)
            assets == release.Assets
        IN \A i \in 1..Len(sfx) :
            (\E a \in 1..Len(assets) : matchesSuffix(assets[a].Name, sfx[i])) =>
                \E k \in 1..i : matchesSuffix(asset.Name, sfx[k])

\* every accepted naming fragment, of either mode
AllFragments ==
    {primarySuffix(TRUE), primarySuffix(FALSE), S_win64_zip, S_win64_setup_exe,
     S_windows_zip, S_windows_setup_exe}

IsArchiveAsset(n) ==
    HasSuffix(ToLower(n), S_zip) /\ \E f \in AllFragments : matchesSuffix(n, f)

IsInstallerAsset(n) ==
    HasSuffix(ToLower(n), S_exe) /\ \E f \in AllFragments : matchesSuffix(n, f)

\* C9: for a release that lists both a portable archive and an installer
\* executable, findAsset returns the archive in portable mode and the
\* executable in non-portable mode.
C9_ModeSelectsKind ==
    LET assets == release.Assets
    IN (/\ Happened("findAsset")
        /\ \E a \in 1..Len(assets) : IsArchiveAsset(assets[a].Name)
        /\ \E a \in 1..Len(assets) : IsInstallerAsset(assets[a].Name)) =>
            /\ isPortableMode => IsArchiveAsset(asset.Name)
            /\ ~isPortableMode => IsInstallerAsset(asset.Name)

\* a version string with one leading "v" removed
Normalized(s) == IF Len(s) >= 1 /\ Head(s) = "v" THEN Tail(s) ELSE s

Digits == <<"0","1","2","3","4","5","6","7","8","9">>

IsDigit(ch) == \E d \in 1..10 : Digits[d] = ch

DigitVal(ch) == (CHOOSE d \in 1..10 : Digits[d] = ch) - 1

IsNumber(s) == Len(s) >= 1 /\ \A i \in 1..Len(s) : IsDigit(s[i])

RECURSIVE NumberOf(_)
NumberOf(s) ==
    IF s = <<>> THEN 0
    ELSE 10 * NumberOf(SubSeq(s, 1, Len(s) - 1)) + DigitVal(s[Len(s)])

\* strings.Split(s, sep) for a one-character separator
RECURSIVE SplitOn(_, _)
SplitOn(s, sep) ==
    IF \E i \in 1..Len(s) : s[i] = sep
    THEN LET i == CHOOSE k \in 1..Len(s) :
                      s[k] = sep /\ \A j \in 1..(k - 1) : s[j] # sep
         IN << SubSeq(s, 1, i - 1) >> \o SplitOn(SubSeq(s, i + 1, Len(s)), sep)
    ELSE << s >>

\* the part of a normalized version before the pre-release marker
ReleasePart(s) == SplitOn(s, "-")[1]

IsPreRelease(s) == Len(SplitOn(s, "-")) >= 2

\* a normalized version whose release part is three numbers
IsNumericVersion(s) ==
    LET parts == SplitOn(ReleasePart(s), ".")
    IN Len(parts) = 3 /\ \A i \in 1..3 : IsNumber(parts[i])

Components(s) ==
    LET parts == SplitOn(ReleasePart(s), ".")
    IN [i \in 1..3 |-> NumberOf(parts[i])]

\* a is a lower version than b, component by component
NumericLess(a, b) ==
    LET x == Components(a)
        y == Components(b)
    IN \/ x[1] < y[1]
       \/ x[1] = y[1] /\ x[2] < y[2]
       \/ x[1] = y[1] /\ x[2] = y[2] /\ x[3] < y[3]

\* C11: for a known current version and a latest version that both read as
\* numbers, isNewerVersion is false when latest is numerically lower than
\* current (1.1.0 vs 1.0.1, 2.0.0 vs 1.9.9, 1.10.0 vs 1.9.0), false when current
\* is the pre-release "X-beta" of latest "X", and true when latest is
\* numerically higher than current.
C11_NumericOrdering ==
    newer # "unknown" =>
        LET c == Normalized(currentVersion)
            l == Normalized(newVersion)
        IN (/\ IsNumericVersion(c) /\ IsNumericVersion(l)
            /\ c # S_000 /\ ~IsPreRelease(l)) =>
              /\ NumericLess(l, c) => newer = "no"
              /\ (IsPreRelease(c) /\ ReleasePart(c) = l) => newer = "no"
              /\ NumericLess(c, l) => newer = "yes"

\* the statement of C12 as written: for every non-empty current version other
\* than "0.0.0", leading "v" included, isNewerVersion(current, current) is false.
C12_ReflexiveFalse_AsStated ==
    (/\ newer # "unknown"
     /\ currentVersion # S_empty
     /\ currentVersion # S_000
     /\ newVersion = currentVersion) => newer = "no"

\* C12: for every current version whose form without one leading "v" is
\* neither empty nor "0.0.0", isNewerVersion(current, current) is false,
\* whether or not the string carries a leading "v".
C12_ReflexiveFalse ==
    (/\ newer # "unknown"
     /\ Normalized(currentVersion) \notin {S_empty, S_000}
     /\ newVersion = currentVersion) => newer = "no"

C12_Witness ==
    /\ newer = "no"
    /\ currentVersion = S_v \o S_199
    /\ newVersion = currentVersion

\* C13: isNewerVersion returns a Boolean for every pair of strings, and it
\* returns true for every latest when the current version without one
\* leading "v" is empty or "0.0.0", also when latest normalizes to the same.
C13_SentinelAlwaysNewer ==
    Happened("isNewerVersion") =>
        /\ newer \in {"yes", "no"}
        /\ Normalized(currentVersion) \in {S_empty, S_000} => newer = "yes"

C13_Witness ==
    /\ Happened("isNewerVersion")
    /\ currentVersion = S_v \o S_000
    /\ newVersion = S_000
    /\ newer = "yes"

\* errors of verifyChecksum that come from a failed file operation
VerifyTransferErrors == {"failed to download checksum file", "failed to read checksum file"}

VerifyIOErrors == VerifyTransferErrors \cup {"failed to hash the file"}

\* the lines of the manifest whose record matches the target file name
MatchingLines(data, fileName) ==
    LET lines == SplitLines(data)
    IN {i \in 1..Len(lines) : lineMatches(lines[i], fileName)}

\* the digest field of line i of the manifest
DigestOfLine(data, i) == Fields(SplitLines(data)[i])[1]

\* no install strategy was entered and the run ended with the checksum error
InstallBlocked ==
    /\ pc \in {"returned", "exited"}
    /\ err = "update failed: checksum verification failed"
    /\ \A i \in 1..Len(trace) : trace[i].op \notin InstallOps

\* C14: verifyChecksum succeeds only if the manifest has a record matching the
\* file name whose digest equals, ignoring letter case, the digest of the file,
\* and, when no file operation failed, it succeeds whenever that holds; a
\* downloaded manifest with no record of the file gives the not-found error and
\* blocks the installation, and a different digest gives the mismatch error.
C14_ChecksumDecides ==
    verified # "none" =>
        LET hits == MatchingLines(manifest, asset.Name)
            digestOk == /\ hits # {}
                        /\ EqualFold(DigestOfLine(manifest, FirstIndex(hits)), actualHash)
        IN /\ verified = "ok" => digestOk
           /\ verifyErr \notin VerifyIOErrors => ((verified = "ok") <=> digestOk)
           /\ (verifyErr \notin VerifyTransferErrors /\ hits = {}) =>
                /\ verifyErr = "checksum not found in checksum file"
                /\ InstallBlocked
           /\ (verifyErr \notin VerifyIOErrors /\ hits # {} /\ ~digestOk) =>
                /\ verifyErr = "checksum mismatch"
                /\ InstallBlocked

C14_Witness ==
    /\ verified = "ok"
    /\ manifest = H1U \o S_sp \o S_sp \o S_star \o asset.Name
    /\ actualHash = H1
    /\ pc \in InstallPcs

\* the match of a manifest record as C15 states it: equality or suffix, both
\* ignoring letter case
matchesIgnoringCase(line, fileName) ==
    LET parts == Fields(line)
    IN /\ Len(parts) >= 2
       /\ LET name == TrimPrefix(parts[2], S_star)
          IN \/ ToLower(name) = ToLower(fileName)
             \/ HasSuffix(ToLower(name), ToLower(fileName))

\* C15: verifyChecksum compares against the first manifest record whose file
\* name, without a leading "*", equals the target name or ends with it, both
\* ignoring letter case: when such a record exists the result is not the
\* not-found error and is success exactly when that record's digest is the
\* digest of the file; when none exists the result is the not-found error.
C15_FirstRecordIgnoringCase ==
    (verified # "none" /\ verifyErr \notin VerifyTransferErrors) =>
        LET lines == SplitLines(manifest)
            hits == {i \in 1..Len(lines) : matchesIgnoringCase(lines[i], asset.Name)}
        IN IF hits = {}
           THEN verifyErr = "checksum not found in checksum file"
           ELSE /\ verifyErr # "checksum not found in checksum file"
                /\ verifyErr # "failed to hash the file" =>
                     ((verified = "ok") <=>
                        EqualFold(DigestOfLine(manifest, FirstIndex(hits)), actualHash))

\* C16: when a run that started the asset download has ended, the downloaded
\* file is not in the work directory.
C16_DownloadRemoved ==
    (Ended /\ Happened("downloadFile")) => asset.Name \notin workFiles

\* C17: once verifyChecksum has returned, the manifest file is not in the
\* work directory, whatever the outcome.
C17_ManifestRemoved ==
    Happened("verifyChecksum") =>
        findChecksumAsset(release.Assets).Name \notin workFiles

\* the errors of extractPortable returned before the extract directory exists
BeforeStagingErrors ==
    {"update failed: failed to clean extract directory",
     "update failed: failed to create extract directory"}

\* C18: when extractPortable has returned after creating the extract
\* directory (the unzip failed, the listing failed, the copy failed or the copy
\* completed), the extract directory no longer exists.
C18_StagingRemoved ==
    Ended =>
        /\ staging # "present"
        /\ (Happened("extractPortable") /\ err \notin BeforeStagingErrors) =>
                staging = "removed"

C18_Witness ==
    /\ Ended
    /\ staging = "removed"
    /\ err = "update failed: extraction failed"
    /\ written # {}

\* a path strictly inside the extract directory
InsideStaging(path) ==
    /\ Len(path) > Len(extractDir)
    /\ SubSeq(path, 1, Len(extractDir)) = extractDir

\* the entries of the archive whose cleaned target is not strictly inside
EscapingEntries ==
    {i \in 1..Len(archive) : ~InsideStaging(Join(extractDir, archive[i].Name))}

\* C19: every path unzip creates is strictly inside the extract directory; when
\* the archive holds an entry whose cleaned target is not, the extraction
\* fails, the copy is never reached, and nothing of that entry or of a later
\* entry is created.
C19_NoEscape ==
    /\ \A x \in written : InsideStaging(x.path)
    /\ EscapingEntries # {} =>
        LET first == FirstIndex(EscapingEntries)
        IN /\ pc # "copyDir"
           /\ installDir = {}
           /\ (Ended /\ staging = "removed") =>
                err \in {"update failed: extraction failed: illegal file path",
                         "update failed: extraction failed"}
           /\ \A x \in written :
                \E j \in 1..(first - 1) : x \in entryPaths(archive[j], extractDir)

C19_Witness ==
    /\ Ended
    /\ err = "update failed: extraction failed: illegal file path"
    /\ archive = << fileEntry(<< S_a >>),
                    fileEntry(<< S_dotdot, S_Noraneko_Extracted \o <<"2">>, S_a >>) >>
    /\ written = {[path |-> Append(extractDir, S_a), dir |-> FALSE]}

\* the errors of a run that ends before copyDir is called
BeforeCopyErrors ==
    BeforeStagingErrors \cup
    {"connection check failed", "failed to get latest release",
     "update failed: failed to find download", "update failed: download failed",
     "update failed: checksum verification failed",
     "update failed: extraction failed: illegal file path",
     "update failed: extraction failed",
     "update failed: cannot list extract directory"}

\* C20: the live install directory is written only by copyDir or by an
\* installer process: it is as before the run while the run has not reached
\* them and when the run ends with a failure of an earlier stage; what the
\* copy writes comes from an archive all of whose entries were extracted into
\* the extract directory.
C20_InstallDirUntouched ==
    /\ (pc \notin {"returned", "exited", "runInstallerInteractive"}) => installDir = {}
    /\ (Ended /\ err \in BeforeCopyErrors) => installDir = {}
    /\ installDir \ S_installer # {} =>
        /\ Happened("extractPortable")
        /\ err \in {"", "update failed: failed to copy files"}
        /\ EscapingEntries = {}
        /\ \A i \in 1..Len(archive) :
                archive[i].IsDir \/ \E x \in written : x.path = Join(extractDir, archive[i].Name)
        /\ installDir \subseteq walkItems(written, sourceDirOf(written, extractDir))

C20_Witness ==
    /\ Ended
    /\ err = "update failed: extraction failed: illegal file path"
    /\ written # {}
    /\ installDir = {}
    /\ verified = "ok"

\* the invocations of the installer made so far, in order
IsExec(call) == call.op = "exec"

Execs == SelectSeq(installCalls, IsExec)

\* C21: the installer is invoked at most twice: first in silent mode with the
\* target directory; a second time only after the silent invocation failed,
\* then in interactive mode with the same target directory, and the result of
\* that invocation is the result of runInstaller; after a silent success
\* there is no second invocation.
C21_InstallerAtMostTwice ==
    /\ Len(Execs) <= 2
    /\ Len(Execs) >= 1 =>
        /\ Execs[1].silent
        /\ Execs[1].dir = installerTarget(browserPath)
        /\ Happened("runInstaller:silent")
    /\ Len(Execs) = 2 =>
        /\ ~Execs[2].silent
        /\ Execs[2].dir = Execs[1].dir
        /\ \E i \in 1..Len(trace) : trace[i] = Ev("runInstaller:silent", FALSE)
        /\ Ended
        /\ \E i \in 1..Len(trace) : trace[i] = Ev("runInstaller:interactive", err = "")
        /\ err \in {"", "update failed: installer failed"}
    /\ (\E i \in 1..Len(trace) : trace[i] = Ev("runInstaller:silent", TRUE)) =>
        /\ Len(Execs) = 1
        /\ Ended /\ err = ""
    /\ (Ended /\ \E i \in 1..Len(trace) : trace[i] = Ev("runInstaller:silent", FALSE)) =>
        Len(Execs) = 2

C21_Witness ==
    /\ Ended
    /\ err = "update failed: installer failed"
    /\ Len(Execs) = 2
    /\ Execs[1].silent /\ ~Execs[2].silent

\* the strategies a run has entered
ExtractionEntered ==
    pc \in {"extractPortable", "unzip", "copyDir"} \/ Happened("extractPortable")

InstallerEntered ==
    pc \in {"runInstaller", "runInstallerInteractive"} \/ Happened("runInstaller:silent")

\* C22: a run that reaches the install stage enters exactly one of the two
\* strategies: the portable extraction if and only if the configured portable
\* flag or the runtime portable option is set or the name of the selected asset
\* has the archive suffix, and the installer invocation otherwise.
C22_OneStrategy ==
    (ExtractionEntered \/ InstallerEntered) =>
        /\ ~(ExtractionEntered /\ InstallerEntered)
        /\ ExtractionEntered <=>
              (cfgPortable \/ opts.Portable \/ HasSuffix(asset.Name, S_zip))
        /\ InstallerEntered <=>
              ~(cfgPortable \/ opts.Portable \/ HasSuffix(asset.Name, S_zip))

C22_Witness ==
    /\ Ended
    /\ Happened("extractPortable")
    /\ ~cfgPortable /\ ~opts.Portable
    /\ HasSuffix(asset.Name, S_zip)

\* the files of the payload, by path relative to the payload root
PayloadFiles ==
    LET sourceDir == sourceDirOf(written, extractDir)
    IN {rel \in walkItems(written, sourceDir) : ~isDirItem(written, sourceDir, rel)}

\* C23: when the copy of a portable install succeeds, every file of the payload
\* is in the live install directory at its relative path with the content the
\* copy wrote, and every file that was there before and has no counterpart in
\* the payload is still there unchanged: the copy removes nothing.
C23_CopyIsAdditive ==
    [][(pc = "copyDir" /\ pc' = "returned" /\ err' = "") =>
          /\ \A rel \in PayloadFiles :
                [path |-> rel, dir |-> FALSE, new |-> TRUE] \in liveDir'
          /\ \A x \in liveDir : x.path \notin PayloadFiles => x \in liveDir']_vars

C23_Witness ==
    /\ Ended /\ err = ""
    /\ trace[Len(trace) - 1] = Ev("extractPortable", TRUE)
    /\ PayloadFiles = {<< S_a >>}
    /\ [path |-> << S_a >>, dir |-> FALSE, new |-> TRUE] \in liveDir
    /\ oldFile(<< S_o >>) \in liveDir

\* the name rule of the claim: the lowercased name contains sha256 or ends
\* with .sha256
ChecksumNamed(n) ==
    \/ \E k \in 0..Len(n) - 6 : ToLower(SubSeq(n, k + 1, k + 6)) = S_sha256
    \/ (Len(n) >= 7 /\ ToLower(SubSeq(n, Len(n) - 6, Len(n))) = S_dot_sha256)

\* C24: findChecksumAsset returns the first asset of the release, in order,
\* whose lowercased name contains sha256 or ends with .sha256; it returns no
\* asset exactly when no asset has such a name, and then no verification is
\* made and the run goes on to the install strategy without an error.
C24_FirstChecksumAsset ==
    pc # "checksum" =>
        LET assets == release.Assets
            named == {i \in 1..Len(assets) : ChecksumNamed(assets[i].Name)}
        IN /\ named # {} =>
                \E i \in named : /\ \A j \in named : i <= j
                                  /\ checksumAsset = assets[i]
                                  /\ Happened("verifyChecksum")
           /\ (checksumAsset = NoAsset) <=> (named = {})
           /\ named = {} =>
                /\ ~Happened("verifyChecksum")
                /\ err = "" /\ verified = "none"
                /\ pc \in {"extractPortable", "runInstaller"}

C24_Witness ==
    /\ pc # "checksum"
    /\ Len(release.Assets) = 3
    /\ release.Assets[2].Name = ToUpper(A_sums)
    /\ release.Assets[3].Name = A_winzip_sha256
    /\ checksumAsset = release.Assets[2]

\* the lines of a configuration file by section: a header line is a line that,
\* trimmed, starts with "[" and ends with "]"; a line belongs to the section of
\* the last header line before it
IsHeaderLine(line) ==
    LET t == TrimSpace(line)
    IN Len(t) >= 2 /\ t[1] = "[" /\ t[Len(t)] = "]"

SectionIndices(lines, header) ==
    {i \in 1..Len(lines) :
        /\ ~IsHeaderLine(lines[i])
        /\ TrimSpace(lines[i]) # <<>>
        /\ \E h \in 1..(i - 1) :
              /\ TrimSpace(lines[h]) = header
              /\ \A j \in (h + 1)..i : ~IsHeaderLine(lines[j])}

\* the lines of a section, in order
SectionLines(content, header) ==
    LET lines == SplitLines(content)
        idx == SectionIndices(lines, header)
    IN [n \in 1..Cardinality(idx) |->
           lines[CHOOSE i \in idx : Cardinality({j \in idx : j <= i}) = n]]

S_Settings == <<"[","S","e","t","t","i","n","g","s","]">>

KeyChars(key) == IF key = "LastRun" THEN S_LastRun ELSE S_LastResult

\* C25: after any sequence of LogEntry calls the file has a [Log] section that
\* holds, for each key written, exactly one line key=value with the value of
\* the latest call for that key, and the lines of the [Settings] section are
\* the ones the file had before the calls.
C25_LogSection ==
    logged # <<>> =>
        LET lines == SplitLines(configFile)
            logLines == SectionLines(configFile, S_Log)
        IN /\ \E h \in 1..Len(lines) : TrimSpace(lines[h]) = S_Log
           /\ \A c \in 1..Len(logged) :
                LET key == KeyChars(logged[c].key)
                    last == CHOOSE d \in c..Len(logged) :
                                /\ logged[d].key = logged[c].key
                                /\ \A e \in (d + 1)..Len(logged) :
                                      logged[e].key # logged[c].key
                    of == {i \in 1..Len(logLines) :
                              HasPrefix(logLines[i], key \o <<"=">>)}
                IN /\ Cardinality(of) = 1
                   /\ \A i \in of : logLines[i] = key \o <<"=">> \o logged[last].value
           /\ SectionLines(configFile, S_Settings) = SectionLines(configFile0, S_Settings)

\* C26: the asset findAsset selects is never a checksum manifest: for every
\* release asset list, the name of the asset it returns does not satisfy the
\* name rule of findChecksumAsset.
C26_NeverTheManifest ==
    (pc = "download" /\ Happened("findAsset")) => ~ChecksumNamed(asset.Name)

\* C27: the strategy fits the type of the selected asset: runInstaller is not
\* entered with an asset whose name ends in .zip in any letter case, and
\* extractPortable is not entered with an asset whose name ends in .exe.
C27_StrategyFitsAsset ==
    /\ pc = "runInstaller" => ~HasSuffix(ToLower(asset.Name), S_zip)
    /\ pc = "extractPortable" => ~HasSuffix(ToLower(asset.Name), S_exe)

\* C28: when GetBrowserPath returns the empty string, extractPortable copies
\* into ExeDir/BrowserName and runInstaller targets ProgramFiles/BrowserName;
\* the target is never the current working directory.
C28_FallbackTarget ==
    browserPath = S_emptyPath =>
        \A i \in 1..Len(installCalls) :
            /\ installCalls[i].op = "copyDir" =>
                  installCalls[i].dir = << S_ExeDir, S_Noraneko >>
            /\ installCalls[i].op = "exec" =>
                  installCalls[i].dir = << S_ProgramFiles, S_Noraneko >>
            /\ installCalls[i].dir # << S_dot >>

\* a manifest record names the file itself: its name, without a leading "*",
\* is the target name or a path whose last element is the target name
recordOfFile(line, fileName) ==
    LET parts == Fields(line)
    IN /\ Len(parts) >= 2
       /\ LET name == TrimPrefix(parts[2], S_star)
          IN EqualFold(name, fileName) \/ HasSuffix(name, <<"/">> \o fileName)

\* C29: the digest verifyChecksum compares with comes from a record of the
\* downloaded file itself: when the manifest has such a record and the file
\* was hashed, the result is success exactly when the digest of the first such
\* record is the digest of the file, whatever records of files with longer
\* names ending in the target name precede it.
C29_OwnRecordDecides ==
    (verified # "none" /\ verifyErr \notin (VerifyTransferErrors \cup VerifyIOErrors)) =>
        LET lines == SplitLines(manifest)
            own == {i \in 1..Len(lines) : recordOfFile(lines[i], asset.Name)}
        IN own # {} =>
             ((verified = "ok") <=>
                EqualFold(DigestOfLine(manifest, FirstIndex(own)), actualHash))

====
